---- MODULE Spec2Model ----
(***************************************************************************)
(* A model of src/main.py: the two tool functions, the static agent        *)
(* descriptors, and the two chat callbacks `start` and `main` working on   *)
(* one session's key-value store.                                          *)
(*                                                                         *)
(* Text is modelled as a sequence of atoms; string concatenation is \o.    *)
(* Python lists are objects: `lists` is the heap of list objects and a     *)
(* list is referred to by its index in the heap, so that two names for one *)
(* list (the session store's and a handler's local `history`) alias.       *)
(***************************************************************************)
EXTENDS Integers, Sequences, FiniteSets, TLC

VARIABLES chat_history, lists, turns, tool

vars == <<chat_history, lists, turns, tool>>

(***************************************************************************)
(* Bounds of the model.                                                    *)
(***************************************************************************)
\* on-message events delivered to the session during a run
MaxTurns == 2
\* stream events produced by the runtime, summed over the turns of a run
MaxEvents == 2
\* largest `sides` argument tried besides the default
MaxSides == 4

(***************************************************************************)
(* Generic helpers.                                                        *)
(***************************************************************************)
IsPrefix(s, t) == Len(s) <= Len(t) /\ SubSeq(t, 1, Len(s)) = s

RECURSIVE Concat(_)
Concat(ss) == IF ss = <<>> THEN <<>> ELSE Head(ss) \o Concat(Tail(ss))

(***************************************************************************)
(* Agents (main.py 67-111).  An agent is its name; Handoffs is the static  *)
(* handoffs= list of each descriptor.                                      *)
(***************************************************************************)
NarratorAgent == "NarratorAgent"
MonsterAgent == "MonsterAgent"
ItemAgent == "ItemAgent"
GameTriageAgent == "GameTriageAgent"

Agents == {NarratorAgent, MonsterAgent, ItemAgent, GameTriageAgent}

\* a handoffs= list on every descriptor, naming every other agent
Handoffs_ToAnyAgent(agent) == Agents \ {agent}

Handoffs(agent) ==
    IF agent = GameTriageAgent THEN {MonsterAgent, ItemAgent} ELSE {}

\* the agent main hands to Runner.run_streamed
StartingAgent == GameTriageAgent

NoAgent == "none"

(***************************************************************************)
(* Stream events of the agent runtime, as main.py 140-141 reads them: a    *)
(* `type`, and for raw response events a `data` object that has a `delta`  *)
(* attribute or has none.                                                  *)
(***************************************************************************)
Deltas == {<<"a">>, <<"b">>}

RawDelta(d) ==
    [type |-> "raw_response_event", data |-> [kind |-> "text.delta", delta |-> d]]

RawOther == [type |-> "raw_response_event", data |-> [kind |-> "completed"]]

RunItem == [type |-> "run_item_stream_event", name |-> "tool_called"]

AgentUpdated(agent) == [type |-> "agent_updated_stream_event", new_agent |-> agent]

\* the events the runtime can produce next while `agent` is the active agent
PossibleEvents(agent) ==
    {RawDelta(d) : d \in Deltas} \cup {RawOther, RunItem}
        \cup {AgentUpdated(a) : a \in Handoffs(agent)}

\* the active agent after the runtime produced event
AgentAfter(agent, event) ==
    IF event.type = "agent_updated_stream_event" THEN event.new_agent ELSE agent

(***************************************************************************)
(* Exceptions raised by the streaming execution.  str(e) of an exception   *)
(* is its single argument, or the empty string when it has none.           *)
(***************************************************************************)
Errors == {[args |-> <<"timeout">>], [args |-> <<>>]}

NoExc == [args |-> <<"none">>, none |-> TRUE]

Str(e) == IF e.args = <<>> THEN <<>> ELSE <<e.args[1]>>

\* main.py 148: the literal prefix of the f-string, the cross mark U+274C
\* followed by " Error: " (the module is ASCII, so the code point is spelled out)
ErrorMarker == <<"U+274C Error: ">>

(***************************************************************************)
(* The session store and the history entries.                              *)
(* An entry is the dict main appends; `turn` is a history tag (not in the  *)
(* code) that records which invocation of main appended the entry.         *)
(***************************************************************************)
None == 0

Messages == {<<"I enter the dungeon">>}

UserEntry(t, content) == [role |-> "user", content |-> content, turn |-> t]

AssistantEntry(t, content) == [role |-> "assistant", content |-> content, turn |-> t]

\* the list the store holds under "chat_history"
Stored == IF chat_history = None THEN <<>> ELSE lists[chat_history]

\* `cl.user_session.get("chat_history") or []` (main.py 128): the stored
\* list object when it is truthy, a new empty list otherwise
StoredIsTruthy == chat_history # None /\ lists[chat_history] # <<>>

HistoryRef == IF StoredIsTruthy THEN chat_history ELSE Len(lists) + 1

HistoryHeap == IF StoredIsTruthy THEN lists ELSE Append(lists, <<>>)

\* list.append on the list object ref of heap
ListAppend(heap, ref, entry) == [heap EXCEPT ![ref] = Append(@, entry)]

(***************************************************************************)
(* The handler's steps on one invocation record.                           *)
(***************************************************************************)
\* main.py 141: the condition under which an event is forwarded
IsForwarded(event) ==
    event.type = "raw_response_event" /\ "delta" \in DOMAIN event.data

\* the token replaces the message content instead of extending it
StreamToken_Overwrites(turn, token) ==
    [turn EXCEPT !.content = token, !.streamed = Append(@, token)]

\* main.py 142: msg.stream_token(delta) appends the token to msg.content and
\* sends it to the UI (`streamed` is the sequence of tokens the UI received)
StreamToken(turn, token) ==
    [turn EXCEPT !.content = @ \o token, !.streamed = Append(@, token)]

\* main.py 140-142: one iteration of the loop
OnEvent(turn, event) ==
    LET seen == [turn EXCEPT !.events = Append(@, event),
                             !.agent = AgentAfter(@, event)]
    IN  IF IsForwarded(event) THEN StreamToken(seen, event.data.delta) ELSE seen

\* the except clause logs the error and leaves the partial message as it is
OnException_KeepsPartial(turn, e) == [turn EXCEPT !.pc = "returned", !.exc = e]

\* main.py 147-149: the except clause; the handler returns normally
OnException(turn, e) ==
    [turn EXCEPT !.pc = "returned", !.exc = e,
                 !.content = ErrorMarker \o Str(e)]

\* the except clause also records the error string as the assistant's entry
HistoryAfterException_AppendsError(heap, turn, t, e) ==
    [heap EXCEPT ![turn.history] =
        Append(@, [role |-> "assistant", content |-> ErrorMarker \o Str(e), turn |-> t])]

\* main.py 147-149: the except clause leaves the history list as it is
HistoryAfterException(heap, turn, t, e) == heap

\* main.py 144: the entry appended when the stream is exhausted
CompletedEntry(t, turn) == AssistantEntry(t, turn.content)

\* main.py 145: the value stored back under "chat_history"
StoredAfterCompletion(turn) == turn.history

RECURSIVE SumEvents(_)
SumEvents(ts) == IF ts = <<>> THEN 0 ELSE Len(Head(ts).events) + SumEvents(Tail(ts))

Init ==
    /\ chat_history = None
    /\ lists = <<>>
    /\ turns = <<>>
    /\ tool = [fn |-> "none"]

\* main.py 114-123: on_chat_start, once per session
start ==
    /\ chat_history = None
    /\ lists' = Append(lists, <<>>)
    /\ chat_history' = Len(lists) + 1
    /\ UNCHANGED <<turns, tool>>

\* main.py 128-132: read the history, append the user entry, create and send
\* the empty UI message; the handler then waits at `await msg.send()`.
\* Nothing in main makes an invocation wait for an earlier one, so the step is
\* enabled while other invocations are suspended at their awaits; `overlap`
\* is a history tag recording that one was.
main_begin(message) ==
    /\ chat_history # None
    /\ Len(turns) < MaxTurns
    /\ LET t == Len(turns) + 1
       IN  /\ lists' = ListAppend(HistoryHeap, HistoryRef, UserEntry(t, message))
           /\ turns' = Append(turns,
                  [pc |-> "send", message |-> message, history |-> HistoryRef,
                   content |-> <<>>, streamed |-> <<>>, agent |-> NoAgent,
                   events |-> <<>>, exc |-> NoExc,
                   overlap |-> \E u \in DOMAIN turns : turns[u].pc # "returned"])
    /\ UNCHANGED <<chat_history, tool>>

\* main.py 136-138: Runner.run_streamed returns the streaming result
main_run_streamed(t) ==
    /\ turns[t].pc = "send"
    /\ turns' = [turns EXCEPT ![t].pc = "stream", ![t].agent = StartingAgent]
    /\ UNCHANGED <<chat_history, lists, tool>>

\* main.py 140-142: the runtime produces one event
main_stream_event(t, event) ==
    /\ turns[t].pc = "stream"
    /\ SumEvents(turns) < MaxEvents
    /\ event \in PossibleEvents(turns[t].agent)
    /\ turns' = [turns EXCEPT ![t] = OnEvent(@, event)]
    /\ UNCHANGED <<chat_history, lists, tool>>

\* main.py 144-145: the stream is exhausted
main_stream_end(t) ==
    /\ turns[t].pc = "stream"
    /\ lists' = ListAppend(lists, turns[t].history, CompletedEntry(t, turns[t]))
    /\ chat_history' = StoredAfterCompletion(turns[t])
    /\ turns' = [turns EXCEPT ![t].pc = "returned"]
    /\ UNCHANGED tool

\* main.py 134-149: run_streamed (from "send") or the stream raises e
main_except(t, e) ==
    /\ turns[t].pc \in {"send", "stream"}
    /\ turns' = [turns EXCEPT ![t] = OnException(@, e)]
    /\ lists' = HistoryAfterException(lists, turns[t], t, e)
    /\ UNCHANGED <<chat_history, tool>>

Next ==
    \/ start
    \/ \E message \in Messages : main_begin(message)
    \/ \E t \in DOMAIN turns : main_run_streamed(t)
    \/ \E t \in DOMAIN turns : \E event \in PossibleEvents(turns[t].agent) :
           main_stream_event(t, event)
    \/ \E t \in DOMAIN turns : main_stream_end(t)
    \/ \E t \in DOMAIN turns : \E e \in Errors : main_except(t, e)

Spec == Init /\ [][Next]_vars

(***************************************************************************)
(* The same session when the client sends a message only after the         *)
(* previous turn has returned.  main does not enforce this; the            *)
(* specification serves to tell what overlapping turns are responsible for.*)
(***************************************************************************)
NoTurnInFlight == \A t \in DOMAIN turns : turns[t].pc = "returned"

SeqNext == Next /\ (NoTurnInFlight \/ turns' # Append(turns, turns'[Len(turns')]))

SeqSpec == Init /\ [][SeqNext]_vars

(***************************************************************************)
(* Tool functions (main.py 39-64).  A call's possible outcomes are a set   *)
(* of records: a returned value, or the exception the call raises.         *)
(***************************************************************************)
Return(v) == [outcome |-> "return", value |-> v]

Raise(exception) == [outcome |-> "raise", value |-> exception]

\* random.randint(a, b): an integer n with a <= n <= b; ValueError on an
\* empty range
RandInt(a, b) ==
    IF a <= b THEN {Return(n) : n \in a..b} ELSE {Raise("ValueError")}

\* random.choice(seq): an element of seq; IndexError on an empty sequence
Choice(seq) ==
    IF seq # <<>> THEN {Return(seq[i]) : i \in 1..Len(seq)} ELSE {Raise("IndexError")}

\* main.py 40: the default of `sides`
DefaultSides == 20

\* main.py 42
roll_dice(sides) == RandInt(1, sides)

UpperLetters ==
    <<"A", "B", "C", "D", "E", "F", "G", "H", "I", "J", "K", "L", "M",
      "N", "O", "P", "Q", "R", "S", "T", "U", "V", "W", "X", "Y", "Z">>

LowerLetters ==
    <<"a", "b", "c", "d", "e", "f", "g", "h", "i", "j", "k", "l", "m",
      "n", "o", "p", "q", "r", "s", "t", "u", "v", "w", "x", "y", "z">>

\* str.lower() on one character, and on a string (a sequence of characters)
LowerChar(c) ==
    IF \E i \in 1..Len(UpperLetters) : UpperLetters[i] = c
    THEN LowerLetters[CHOOSE i \in 1..Len(UpperLetters) : UpperLetters[i] = c]
    ELSE c

Lower(str) == [i \in 1..Len(str) |-> LowerChar(str[i])]

forest == <<"f", "o", "r", "e", "s", "t">>
dungeon == <<"d", "u", "n", "g", "e", "o", "n">>
village == <<"v", "i", "l", "l", "a", "g", "e">>

\* main.py 47-63: the table
events ==
    (forest :> <<"You hear rustling in the bushes. A goblin appears!",
                 "You find an ancient tree with glowing runes.",
                 "A traveling merchant offers you a mysterious potion.">>)
    @@ (dungeon :> <<"A trap triggers beneath your feet!",
                     "A skeleton warrior blocks your path.",
                     "You discover a chest filled with gold... or is it a mimic?">>)
    @@ (village :> <<"A child runs up to you, asking for help.",
                     "The blacksmith offers to upgrade your weapon.",
                     "You overhear talk of a dragon nearby.">>)

Fallback == "Nothing unusual happens..."

\* dict.get(key, default)
DictGet(dict, key, default) == IF key \in DOMAIN dict THEN dict[key] ELSE default

\* the table is looked up with the context as given
EventKey_AsGiven(context) == context

\* main.py 64: the key the table is looked up with
EventKey(context) == Lower(context)

\* main.py 64
generate_event(context) == Choice(DictGet(events, EventKey(context), <<Fallback>>))

(***************************************************************************)
(* Inputs of the tool calls.                                               *)
(***************************************************************************)
UpperChar(c) ==
    IF \E i \in 1..Len(LowerLetters) : LowerLetters[i] = c
    THEN UpperLetters[CHOOSE i \in 1..Len(LowerLetters) : LowerLetters[i] = c]
    ELSE c

\* every spelling of word in upper- and lower-case letters
CaseVariants(word) ==
    {[i \in 1..Len(word) |-> IF i \in up THEN UpperChar(word[i]) ELSE word[i]] :
        up \in SUBSET (1..Len(word))}

OtherContexts ==
    {<<>>, <<"c", "a", "v", "e">>, <<"C", "A", "V", "E">>,
     <<"f", "o", "r", "e", "s", "t", "s">>, <<" ", "f", "o", "r", "e", "s", "t">>,
     <<"F", "o", "r", "e", "s", "t", " ">>, <<"d", "u", "n", "g", "e", "o">>}

Contexts ==
    CaseVariants(forest) \cup CaseVariants(dungeon) \cup CaseVariants(village)
        \cup OtherContexts

SidesInputs == ((0 - MaxSides)..MaxSides) \cup {DefaultSides}

\* the runtime calls roll_dice(sides) for MonsterAgent
call_roll_dice(sides) ==
    /\ \E result \in roll_dice(sides) :
           tool' = [fn |-> "roll_dice", arg |-> sides, result |-> result]
    /\ UNCHANGED <<chat_history, lists, turns>>

\* the runtime calls generate_event(context) for ItemAgent
call_generate_event(context) ==
    /\ \E result \in generate_event(context) :
           tool' = [fn |-> "generate_event", arg |-> context, result |-> result]
    /\ UNCHANGED <<chat_history, lists, turns>>

ToolNext ==
    \/ \E sides \in SidesInputs : call_roll_dice(sides)
    \/ \E context \in Contexts : call_generate_event(context)

\* the tool functions alone, called with every input of the bounded sets
ToolSpec == Init /\ [][ToolNext]_vars

(***************************************************************************)
(* Vocabulary of the properties.                                           *)
(***************************************************************************)
Returned(t) == turns[t].pc = "returned"

\* the turn ran its stream to the end without an exception
Completed(t) == Returned(t) /\ turns[t].exc = NoExc

Failed(t) == turns[t].exc # NoExc

NumCompleted == Cardinality({t \in DOMAIN turns : Completed(t)})

EntriesOf(history, role) == {i \in 1..Len(history) : history[i].role = role}

\* the deltas of the events of a turn that are raw response events carrying
\* a delta, in the order the runtime produced them
RECURSIVE DeltasOf(_)
DeltasOf(evs) ==
    IF evs = <<>> THEN <<>>
    ELSE IF Head(evs).type = "raw_response_event" /\ "delta" \in DOMAIN Head(evs).data
         THEN <<Head(evs).data.delta>> \o DeltasOf(Tail(evs))
         ELSE DeltasOf(Tail(evs))

HandoffEvents(t) ==
    {i \in 1..Len(turns[t].events) : turns[t].events[i].type = "agent_updated_stream_event"}

(***************************************************************************)
(* C1.  As claimed: once every turn of the session has returned, the       *)
(* stored history has exactly two entries per turn, a user entry followed  *)
(* by an assistant entry, whether or not a turn's streaming failed.        *)
(***************************************************************************)
C1_LengthIsTwiceTheTurns ==
    (chat_history # None /\ \A t \in DOMAIN turns : Returned(t)) =>
        /\ Len(Stored) = 2 * Len(turns)
        /\ \A i \in 1..Len(Stored) :
               Stored[i].role = (IF i % 2 = 1 THEN "user" ELSE "assistant")

(***************************************************************************)
(* C1 as amended.  In every state the stored history holds at most one     *)
(* user entry per turn begun and exactly as many assistant entries as, or  *)
(* fewer than, the turns that completed streaming, each assistant entry    *)
(* after the user entry of its own turn; so after N turns its length is at *)
(* most 2N, and below 2N as soon as one of the turns failed.               *)
(***************************************************************************)
C1_LengthAtMostTwiceTheTurns ==
    chat_history # None =>
        /\ Cardinality(EntriesOf(Stored, "user")) <= Len(turns)
        /\ Cardinality(EntriesOf(Stored, "assistant")) <= NumCompleted
        /\ Len(Stored) <= Len(turns) + NumCompleted
        /\ \A i \in EntriesOf(Stored, "assistant") :
               \E j \in 1..(i - 1) :
                   Stored[j].role = "user" /\ Stored[j].turn = Stored[i].turn
        /\ (\E t \in DOMAIN turns : Failed(t)) => Len(Stored) < 2 * Len(turns)

\* two turns have returned, one completed and one failed, and the stored
\* history holds three entries
C1_Witness ==
    /\ Len(turns) = 2
    /\ Completed(1)
    /\ Returned(2) /\ Failed(2)
    /\ Len(Stored) = 3

(***************************************************************************)
(* C2.  A turn whose streaming execution raised, before or after tokens    *)
(* were streamed, has returned from main (the exception did not leave the  *)
(* handler), its UI message holds the error marker followed by str(e), and *)
(* the session still has its history list, so that later turns run.        *)
(***************************************************************************)
C2_ErrorIsCaughtAndShown ==
    \A t \in DOMAIN turns :
        Failed(t) =>
            /\ turns[t].pc = "returned"
            /\ IsPrefix(ErrorMarker, turns[t].content)
            /\ turns[t].content = ErrorMarker \o Str(turns[t].exc)
            /\ chat_history # None
            /\ \A u \in DOMAIN turns :
                   (u > t /\ ~turns[u].overlap) =>
                       \E i \in 1..Len(lists[turns[u].history]) :
                           lists[turns[u].history][i] = UserEntry(u, turns[u].message)

\* the first turn failed after a token was streamed; the next turn began
\* after it had returned and completed, and its two entries are stored
C2_Witness ==
    /\ Len(turns) = 2
    /\ Failed(1) /\ turns[1].streamed # <<>>
    /\ ~turns[2].overlap /\ Completed(2)
    /\ Stored = <<UserEntry(2, turns[2].message), AssistantEntry(2, turns[2].content)>>

(***************************************************************************)
(* C3.  In every state the stored history holds as many assistant entries  *)
(* as turns completed streaming without an exception, and every assistant  *)
(* entry is the full streamed text of a completed turn.                    *)
(***************************************************************************)
C3_AssistantEntriesAreTheCompletedTurns ==
    chat_history # None =>
        /\ Cardinality(EntriesOf(Stored, "assistant")) = NumCompleted
        /\ \A i \in EntriesOf(Stored, "assistant") :
               /\ Completed(Stored[i].turn)
               /\ Stored[i].content = Concat(DeltasOf(turns[Stored[i].turn].events))

(***************************************************************************)
(* C4.  After main has returned for a turn, completed or failed, the       *)
(* history the session store holds contains that turn's user message.      *)
(***************************************************************************)
C4_UserMessageIsStored ==
    \A t \in DOMAIN turns :
        Returned(t) =>
            \E i \in 1..Len(Stored) : Stored[i] = UserEntry(t, turns[t].message)

(***************************************************************************)
(* C5.  In every turn the active agent is GameTriageAgent when the run     *)
(* starts, a specialist is active only after a handoff event of that turn  *)
(* named it, NarratorAgent is never active, and the only changes of a      *)
(* turn's active agent are triage to MonsterAgent and triage to ItemAgent. *)
(***************************************************************************)
C5_AgentState ==
    \A t \in DOMAIN turns :
        LET turn == turns[t]
        IN  /\ turn.agent # NarratorAgent
            /\ turn.pc = "send" => turn.agent = NoAgent
            /\ (turn.pc = "stream" /\ turn.events = <<>>) => turn.agent = GameTriageAgent
            /\ (turn.agent # NoAgent /\ HandoffEvents(t) = {}) =>
                   turn.agent = GameTriageAgent
            /\ turn.agent \in {MonsterAgent, ItemAgent} =>
                   \E i \in HandoffEvents(t) : turn.events[i].new_agent = turn.agent

C5_AgentStep ==
    \A t \in DOMAIN turns :
        \/ turns'[t].agent = turns[t].agent
        \/ turns[t].agent = NoAgent /\ turns'[t].agent = GameTriageAgent
        \/ /\ turns[t].agent = GameTriageAgent
           /\ turns'[t].agent \in {MonsterAgent, ItemAgent}

C5_TriageIsTheEntryPoint == []C5_AgentState /\ [][C5_AgentStep]_vars

\* in the first turn triage handed off to MonsterAgent, which produced text;
\* the next turn's run has started and its active agent is triage again
C5_Witness ==
    /\ Len(turns) = 2
    /\ Completed(1)
    /\ turns[1].agent = MonsterAgent
    /\ turns[1].events = <<AgentUpdated(MonsterAgent), RawDelta(<<"a">>)>>
    /\ ~turns[2].overlap
    /\ turns[2].pc = "stream"
    /\ turns[2].agent = GameTriageAgent

(***************************************************************************)
(* C6.  Turns of the session are strictly sequential: no invocation of     *)
(* main appends its user message while an earlier invocation has not yet   *)
(* returned, so at most one invocation is in flight in any state.          *)
(***************************************************************************)
C6_TurnsAreSequential ==
    \A t, u \in DOMAIN turns :
        (t # u) => (Returned(t) \/ Returned(u))

(***************************************************************************)
(* C7.  No call of a tool function raises: roll_dice(sides) returns a      *)
(* value for every integer sides, also sides <= 0, and generate_event      *)
(* returns a value for every context.                                      *)
(***************************************************************************)
C7_ToolsNeverRaise ==
    tool.fn # "none" => tool.result.outcome = "return"

(***************************************************************************)
(* C8.  For a context that spells forest, dungeon or village in any letter *)
(* case, the result of generate_event is one of the three candidates of    *)
(* that key, and every other spelling of the key has the same set of       *)
(* possible results; for any other context the result is the fallback.     *)
(***************************************************************************)
C8_EventFromTheContextsSet ==
    tool.fn = "generate_event" =>
        /\ \A key \in {forest, dungeon, village} :
               tool.arg \in CaseVariants(key) =>
                   /\ tool.result \in {Return(events[key][i]) : i \in 1..3}
                   /\ Len(events[key]) = 3
                   /\ \A other \in CaseVariants(key) :
                          generate_event(other) = generate_event(tool.arg)
        /\ (\A key \in {forest, dungeon, village} : tool.arg \notin CaseVariants(key)) =>
               /\ tool.result = Return(Fallback)
               /\ generate_event(tool.arg) = {Return(Fallback)}

\* generate_event("FoResT") returned the second forest event
C8_Witness ==
    /\ tool.fn = "generate_event"
    /\ tool.arg = <<"F", "o", "R", "e", "s", "T">>
    /\ tool.result = Return("You find an ancient tree with glowing runes.")

(***************************************************************************)
(* C9.  The stored history is append-only: in every step of the session    *)
(* after chat start, the history stored before the step is a prefix of the *)
(* history stored after it.                                                *)
(***************************************************************************)
C9_StoredHistoryIsAppendOnly ==
    [][chat_history # None => IsPrefix(Stored, Stored')]_vars

(***************************************************************************)
(* C10.  The tokens forwarded to the UI message of a turn are exactly the  *)
(* deltas of the raw response events that carry one, each once and in the  *)
(* order produced; while the turn has not failed the message content is    *)
(* their concatenation, and a completed turn appended exactly one          *)
(* assistant entry, holding that concatenation, to its history list.       *)
(***************************************************************************)
C10_ForwardedDeltas ==
    \A t \in DOMAIN turns :
        LET turn == turns[t]
            history == lists[turn.history]
            mine == {i \in EntriesOf(history, "assistant") : history[i].turn = t}
        IN  /\ turn.streamed = DeltasOf(turn.events)
            /\ ~Failed(t) => turn.content = Concat(DeltasOf(turn.events))
            /\ Completed(t) =>
                   /\ Cardinality(mine) = 1
                   /\ \A i \in mine :
                          history[i].content = Concat(DeltasOf(turn.events))
            /\ ~Completed(t) => mine = {}

\* a turn completed after the deltas b and a, which the UI received in that
\* order, and stored their concatenation as its assistant entry
C10_Witness ==
    \E t \in DOMAIN turns :
        /\ Completed(t)
        /\ turns[t].events = <<RawDelta(<<"b">>), RawDelta(<<"a">>)>>
        /\ turns[t].streamed = <<(<<"b">>), (<<"a">>)>>
        /\ Stored = <<UserEntry(t, turns[t].message), AssistantEntry(t, <<"b", "a">>)>>

====
